---- MODULE Spec2Model ----
(***************************************************************************)
(* The authenticated request pipeline of the surf-forecast mobile client:  *)
(* the axios client with its request/response interceptors (api/client.ts),*)
(* the token storage and the AuthProvider (auth/tokenStorage.ts and        *)
(* auth/AuthContext.tsx, both found in navigation/HomeStack.tsx).          *)
(*                                                                         *)
(* JavaScript runs one task at a time: an action of this model is the code *)
(* that runs from one resumption (a network answer, a secure-store         *)
(* completion, a call from the UI) to the next await.  A secure-store      *)
(* operation takes effect when it completes.  Promise continuations of the *)
(* AuthProvider (the code after `await endpoints.xxx(...)`) are microtasks:*)
(* they run before any other task (see OuterPending).                      *)
(***************************************************************************)
EXTENDS Integers, Sequences, FiniteSets, TLC

\* ---------------------------------------------------------------- bounds
\* Number of concurrent execute() calls (data fetches through apiClient).
NumCallers == 2
\* Number of login()/register()/logout() calls the user makes.
MaxUserOps == 1
\* Number of token pairs the server issues after the persisted one.
MaxIssued == 2
\* Scores handed to scoreToRating / scoreToColor, in tenths: -NegScore .. MaxScore.
MaxScore == 120
NegScore == 20
\* Degrees handed to degreeToCompass: -MaxDegree .. MaxDegree.
MaxDegree == 400

\* ------------------------------------------------------------- requests
Callers == 1 .. NumCallers
\* The request of endpoints.refreshTokens made by the silent refresh on mount.
BootReq == NumCallers + 1
\* The request of endpoints.login / endpoints.register.
AuthReq == NumCallers + 2
Reqs == 1 .. (NumCallers + 2)

\* --------------------------------------------------------------- tokens
NoToken == <<"none", 0>>
Acc(n) == <<"access", n>>
Ref(n) == <<"refresh", n>>
TokenIds == 0 .. MaxIssued

NoError == "none"

VARIABLES
  accessToken,      \* tokenStorage: let accessToken (memory only)
  secureStore,      \* SecureStore item REFRESH_TOKEN_KEY
  isRefreshing,     \* client.ts: let isRefreshing
  failedQueue,      \* client.ts: let failedQueue (the requests whose promise waits)
  isAuthenticated,  \* AuthProvider state
  isLoading,        \* AuthProvider state
  pc,               \* per request: where its promise chain is suspended
  retry,            \* per request: originalRequest._retry
  hdr,              \* per request: config.headers.Authorization
  attempts,         \* per request: how many times it was handed to the network
  result,           \* per request: how apiClient's promise settled
  status,           \* per request: error.response?.status of its last answer
  data,             \* per request: resp.data (id of the token pair returned)
  refreshError,     \* per request: the caught refreshError
  bootPc,           \* the silent refresh task of the mount effect
  bootToken,        \* its const refreshToken
  userPc,           \* the login/register/logout call in progress
  userOps,          \* how many were started
  userRes,          \* how the last one ended
  issued,           \* server: id of the last token pair issued
  submitted,        \* history: per refresh token, times it was posted to /auth/refresh
  stale,            \* history: a renewal cycle ended while this request read the store
  score,            \* formatting.ts: argument of scoreToRating / scoreToColor (tenths)
  deg,              \* formatting.ts: argument of degreeToCompass
  rating,           \* what scoreToRating(score) returned
  color,            \* what scoreToColor(score) returned
  compass           \* what degreeToCompass(deg) returned

vars == <<accessToken, secureStore, isRefreshing, failedQueue, isAuthenticated,
          isLoading, pc, retry, hdr, attempts, result, status, data,
          refreshError, bootPc, bootToken, userPc, userOps, userRes,
          issued, submitted, stale, score, deg, rating, color, compass>>

storeVars == <<accessToken, secureStore>>
coordVars == <<isRefreshing, failedQueue>>
authVars == <<isAuthenticated, isLoading>>
bootVars == <<bootPc, bootToken>>
userVars == <<userPc, userOps, userRes>>
formatVars == <<score, deg, rating, color, compass>>
clientVars == <<accessToken, secureStore, isRefreshing, failedQueue,
                isAuthenticated, isLoading, pc, retry, hdr, attempts, result,
                status, data, refreshError, bootPc, bootToken, userPc, userOps,
                userRes, issued, submitted, stale>>

\* null / undefined, and a number, as arguments of degreeToCompass.
Null == <<"null", 0>>
Num(d) == <<"number", d>>
\* No call of the formatting function has returned yet.
Pending == "pending"

Waiters == {failedQueue[i] : i \in 1 .. Len(failedQueue)}

\* ------------------------------------------------------------- Init
Init ==
  /\ accessToken = NoToken
  /\ secureStore \in {NoToken, Ref(0)}
  /\ isRefreshing = FALSE
  /\ failedQueue = <<>>
  /\ isAuthenticated = FALSE
  /\ isLoading = TRUE
  /\ pc = [r \in Reqs |-> "idle"]
  /\ retry = [r \in Reqs |-> FALSE]
  /\ hdr = [r \in Reqs |-> NoToken]
  /\ attempts = [r \in Reqs |-> 0]
  /\ result = [r \in Reqs |-> "none"]
  /\ status = [r \in Reqs |-> "none"]
  /\ data = [r \in Reqs |-> 0]
  /\ refreshError = [r \in Reqs |-> NoError]
  /\ bootPc = "reading"
  /\ bootToken = NoToken
  /\ userPc = "idle"
  /\ userOps = 0
  /\ userRes = "none"
  /\ issued = 0
  /\ submitted = [k \in TokenIds |-> 0]
  /\ stale = [r \in Reqs |-> FALSE]
  /\ score = 0
  /\ deg = Null
  /\ rating = Pending
  /\ color = Pending
  /\ compass = Pending

\* ------------------------------------------------- tokenStorage (pure parts)
\* getRefreshToken: the persisted item, or null when SecureStore.getItemAsync throws.
getRefreshToken == {secureStore, NoToken}

\* clearRefreshToken: the item is deleted, or deleteItemAsync throws (swallowed)
\* and the item stays.
clearRefreshToken == {NoToken, secureStore}

\* A setRefreshToken that is handed the access token of the pair.
setRefreshToken_StoresAccess(d) == Acc(d)

\* setRefreshToken(tokens.refresh_token): the item SecureStore holds once
\* setItemAsync has completed, for the token pair d.
setRefreshToken(d) == Ref(d)

\* Request interceptor: the header a request leaves with, given the header `h` its
\* config already carries.
RequestInterceptor(h) == IF accessToken # NoToken THEN accessToken ELSE h

\* One more post of refresh token v to /auth/refresh (2 stands for "more than once").
PostRefresh(sub, v) ==
  [sub EXCEPT ![v[2]] = IF @ = 0 THEN 1 ELSE 2]

\* endpoints.refreshTokens posts its refresh token each time its request is handed
\* to the network: the posts to /auth/refresh after the requests in S were issued.
Posted(S) ==
  IF BootReq \in S THEN PostRefresh(submitted, bootToken) ELSE submitted

\* processQueue with a resolve callback that re-issues the request without
\* setting its Authorization header to the token it is given.
processQueue_KeepsHeader(error, token) ==
  LET fate == IF error # NoError THEN "done"
              ELSE IF token # NoToken THEN "sent" ELSE "dropped"
  IN [pc       |-> [x \in Reqs |-> IF x \in Waiters THEN fate ELSE pc[x]],
      result   |-> [x \in Reqs |-> IF x \in Waiters /\ fate = "done"
                                     THEN error ELSE result[x]],
      hdr      |-> [x \in Reqs |-> IF x \in Waiters /\ fate = "sent"
                                     THEN RequestInterceptor(hdr[x]) ELSE hdr[x]],
      attempts |-> [x \in Reqs |-> IF x \in Waiters /\ fate = "sent"
                                     THEN attempts[x] + 1 ELSE attempts[x]],
      issuedTo |-> IF fate = "sent" THEN Waiters ELSE {}]

\* processQueue(error, token): what becomes of the requests waiting in failedQueue.
\* A rejected waiter's promise settles with the error; a resolved waiter sets its
\* header to the token and hands its request to apiClient again (request
\* interceptor included); with neither error nor token the entry is dropped and
\* its promise never settles.
processQueue(error, token) ==
  LET fate == IF error # NoError THEN "done"
              ELSE IF token # NoToken THEN "sent" ELSE "dropped"
  IN [pc       |-> [x \in Reqs |-> IF x \in Waiters THEN fate ELSE pc[x]],
      result   |-> [x \in Reqs |-> IF x \in Waiters /\ fate = "done"
                                     THEN error ELSE result[x]],
      hdr      |-> [x \in Reqs |-> IF x \in Waiters /\ fate = "sent"
                                     THEN RequestInterceptor(token) ELSE hdr[x]],
      attempts |-> [x \in Reqs |-> IF x \in Waiters /\ fate = "sent"
                                     THEN attempts[x] + 1 ELSE attempts[x]],
      issuedTo |-> IF fate = "sent" THEN Waiters ELSE {}]

\* The AuthProvider code that awaits a request of its own runs as soon as that
\* request's promise settles, before any other task.
OuterPending ==
  \/ bootPc = "request" /\ pc[BootReq] = "done"
  \/ userPc = "request" /\ pc[AuthReq] = "done"

Quiet == ~OuterPending

\* A renewal cycle started by an execute() call ends: the callers still reading
\* the secure store received their 401 before it ended.
MarkStale(r) ==
  [x \in Reqs |-> IF r \in Callers /\ x \in Callers /\ pc[x] = "reading"
                    THEN TRUE ELSE stale[x]]

\* ------------------------------------------------------------ execute()
\* A data fetch (endpoints.getSpots, getForecast, ...) through apiClient.
Execute(c) ==
  /\ Quiet
  /\ pc[c] = "idle"
  /\ pc' = [pc EXCEPT ![c] = "sent"]
  /\ hdr' = [hdr EXCEPT ![c] = RequestInterceptor(NoToken)]
  /\ attempts' = [attempts EXCEPT ![c] = 1]
  /\ UNCHANGED <<formatVars, status, storeVars, coordVars, authVars, retry, result,
                 data, refreshError, bootVars, userVars, issued, submitted,
                 stale>>

TokenEndpoint(r) == r \in {BootReq, AuthReq}

\* A response interceptor that sends every failed request into the renewal path.
EntersRenewal_AnyFailure(s, r) == s # "200" /\ ~retry[r]

\* client.ts 47: a failure goes into the renewal path when it is a 401 and the
\* request is not marked _retry; every other failure is rejected as it is.
EntersRenewal(s, r) == s = "401" /\ ~retry[r]

\* The server answers request r; the response interceptor runs up to its first
\* await (client.ts 41-51).  A token endpoint answering 200 issues a new pair.
\* "error" is any failure that is not a 401: no response, another status, or a
\* 200 whose body the endpoint function's schema rejects.  The header of the
\* answered attempt and the _retry mark of a settled request are not read again
\* (every re-issue sets the header anew), so they are cleared here.
Respond(r) ==
  /\ Quiet
  /\ pc[r] = "sent"
  /\ \E s \in {"200", "401", "error"} :
       /\ (s = "200" /\ TokenEndpoint(r)) => issued < MaxIssued
       /\ LET grant == s = "200" /\ TokenEndpoint(r)
              toHandler == EntersRenewal(s, r)
          IN /\ status' = [status EXCEPT ![r] = s]
             /\ issued' = IF grant THEN issued + 1 ELSE issued
             /\ data' = [data EXCEPT ![r] = IF grant THEN issued + 1 ELSE 0]
             /\ pc' = [pc EXCEPT ![r] = IF toHandler THEN "reading" ELSE "done"]
             /\ retry' = [retry EXCEPT ![r] = IF toHandler THEN @ ELSE FALSE]
             /\ result' = [result EXCEPT ![r] =
                             CASE s = "200" -> "ok"
                               [] s = "401" -> IF toHandler THEN "none" ELSE "e401"
                               [] OTHER -> "eNet"]
  /\ hdr' = [hdr EXCEPT ![r] = NoToken]
  /\ UNCHANGED <<formatVars, storeVars, coordVars, authVars, attempts,
                 refreshError, bootVars, userVars, submitted, stale>>

\* A handler that goes on to renew without a renewal credential.
NoRenewalCredential_Ignored(v) == FALSE

\* client.ts 52: if (!refreshToken).
NoRenewalCredential(v) == v = NoToken

\* await tokenStorage.getRefreshToken() completes; the handler runs to its next
\* suspension (client.ts 51-75).
ReadDone(r) ==
  /\ Quiet
  /\ pc[r] = "reading"
  /\ \E v \in getRefreshToken :
       IF NoRenewalCredential(v)
         THEN /\ pc' = [pc EXCEPT ![r] = "done"]
              /\ result' = [result EXCEPT ![r] = "e401"]
              /\ stale' = [stale EXCEPT ![r] = FALSE]
              /\ UNCHANGED <<coordVars, retry, submitted>>
         ELSE IF isRefreshing
           THEN /\ failedQueue' = Append(failedQueue, r)
                /\ pc' = [pc EXCEPT ![r] = "queued"]
                /\ stale' = [stale EXCEPT ![r] = FALSE]
                /\ UNCHANGED <<isRefreshing, retry, result, submitted>>
           ELSE /\ retry' = [retry EXCEPT ![r] = TRUE]
                /\ isRefreshing' = TRUE
                /\ submitted' = PostRefresh(submitted, v)
                /\ pc' = [pc EXCEPT ![r] = "renewing"]
                /\ UNCHANGED <<failedQueue, result, stale>>
  /\ UNCHANGED <<formatVars, status, storeVars, authVars, hdr, attempts, data, refreshError,
                 bootVars, userVars, issued>>

\* catch (refreshError): processQueue(refreshError, null); clearAccessToken();
\* await clearRefreshToken() is started (client.ts 84-88).
RefreshFailed(r, e) ==
  LET q == processQueue(e, NoToken)
  IN /\ pc' = [q.pc EXCEPT ![r] = "clearing"]
     /\ result' = q.result
     /\ hdr' = q.hdr
     /\ attempts' = q.attempts
     /\ failedQueue' = <<>>
     /\ accessToken' = NoToken
     /\ refreshError' = [refreshError EXCEPT ![r] = e]
     /\ data' = [data EXCEPT ![r] = 0]
     /\ stale' = [stale EXCEPT ![r] = FALSE]
     /\ submitted' = Posted(q.issuedTo)
     /\ UNCHANGED <<formatVars, status, secureStore, isRefreshing, authVars, retry,
                    bootVars, userVars, issued>>

\* A handler that resolves the waiters as soon as the renewal has answered,
\* before the new renewal credential is written.
RenewResponse_EarlyRelease(r) ==
  /\ Quiet
  /\ pc[r] = "renewing"
  /\ \/ LET q == processQueue(NoError, Acc(issued + 1))
        IN /\ issued < MaxIssued
           /\ issued' = issued + 1
           /\ data' = [data EXCEPT ![r] = issued + 1]
           /\ accessToken' = Acc(issued + 1)
           /\ pc' = [q.pc EXCEPT ![r] = "storing"]
           /\ hdr' = q.hdr
           /\ attempts' = q.attempts
           /\ result' = q.result
           /\ failedQueue' = <<>>
           /\ submitted' = Posted(q.issuedTo)
           /\ stale' = [stale EXCEPT ![r] = FALSE]
           /\ UNCHANGED <<formatVars, status, secureStore, isRefreshing,
                          authVars, retry, refreshError, bootVars, userVars>>
     \/ RefreshFailed(r, "rejected")

\* The answer to axios.post(/auth/refresh) of the 401 handler (client.ts 73-79).
RenewResponse(r) ==
  /\ Quiet
  /\ pc[r] = "renewing"
  /\ \/ /\ issued < MaxIssued
        /\ issued' = issued + 1
        /\ data' = [data EXCEPT ![r] = issued + 1]
        /\ accessToken' = Acc(issued + 1)
        /\ pc' = [pc EXCEPT ![r] = "storing"]
        /\ stale' = [stale EXCEPT ![r] = FALSE]
        /\ UNCHANGED <<formatVars, status, secureStore, coordVars, authVars, retry, hdr, attempts,
                       result, refreshError, bootVars, userVars,
                       submitted>>
     \/ RefreshFailed(r, "rejected")

\* await tokenStorage.setRefreshToken(newRefresh) completes (client.ts 79-83, 90-92),
\* or throws into the catch block.
StoreDone(r) ==
  /\ Quiet
  /\ pc[r] = "storing"
  /\ \/ LET token == Acc(data[r])
            q == processQueue(NoError, token)
        IN /\ secureStore' = setRefreshToken(data[r])
           /\ pc' = [q.pc EXCEPT ![r] = "sent"]
           /\ hdr' = [q.hdr EXCEPT ![r] = RequestInterceptor(token)]
           /\ attempts' = [q.attempts EXCEPT ![r] = @ + 1]
           /\ result' = q.result
           /\ data' = [data EXCEPT ![r] = 0]
           /\ failedQueue' = <<>>
           /\ isRefreshing' = FALSE
           /\ submitted' = Posted(q.issuedTo \cup {r})
           /\ stale' = MarkStale(r)
           /\ UNCHANGED <<formatVars, status, accessToken, authVars, retry,
                          refreshError, bootVars, userVars, issued>>
     \/ RefreshFailed(r, "storage")

\* A failure path without the finally block: isRefreshing is not reset.
ClearDone_NoFinally(r) ==
  /\ Quiet
  /\ pc[r] = "clearing"
  /\ secureStore' \in clearRefreshToken
  /\ pc' = [pc EXCEPT ![r] = "done"]
  /\ result' = [result EXCEPT ![r] = refreshError[r]]
  /\ refreshError' = [refreshError EXCEPT ![r] = NoError]
  /\ retry' = [retry EXCEPT ![r] = FALSE]
  /\ stale' = MarkStale(r)
  /\ UNCHANGED <<formatVars, status, accessToken, coordVars, authVars, hdr,
                 attempts, data, bootVars, userVars, issued, submitted>>

\* await tokenStorage.clearRefreshToken() completes (client.ts 88-92).
ClearDone(r) ==
  /\ Quiet
  /\ pc[r] = "clearing"
  /\ secureStore' \in clearRefreshToken
  /\ pc' = [pc EXCEPT ![r] = "done"]
  /\ result' = [result EXCEPT ![r] = refreshError[r]]
  /\ refreshError' = [refreshError EXCEPT ![r] = NoError]
  /\ retry' = [retry EXCEPT ![r] = FALSE]
  /\ isRefreshing' = FALSE
  /\ stale' = MarkStale(r)
  /\ UNCHANGED <<formatVars, status, accessToken, failedQueue, authVars, hdr, attempts,
                 data, bootVars, userVars, issued, submitted>>

\* ------------------------------------------- AuthProvider: silent refresh
\* await tokenStorage.getRefreshToken() of the mount effect completes
\* (AuthContext 68-70, 78-80): the refresh request goes out through apiClient.
BootRead ==
  /\ Quiet
  /\ bootPc = "reading"
  /\ \E v \in getRefreshToken :
       IF v # NoToken
         THEN /\ bootToken' = v
              /\ bootPc' = "request"
              /\ pc' = [pc EXCEPT ![BootReq] = "sent"]
              /\ hdr' = [hdr EXCEPT ![BootReq] = RequestInterceptor(NoToken)]
              /\ attempts' = [attempts EXCEPT ![BootReq] = 1]
              /\ submitted' = PostRefresh(submitted, v)
              /\ UNCHANGED isLoading
         ELSE /\ bootPc' = "done"
              /\ isLoading' = FALSE
              /\ UNCHANGED <<bootToken, pc, hdr, attempts, submitted>>
  /\ UNCHANGED <<formatVars, status, storeVars, coordVars, isAuthenticated, retry, result, data,
                 refreshError, userVars, issued, stale>>

\* The request object of an endpoint call whose promise has been consumed.
Released(f, r, v) == [f EXCEPT ![r] = v]

\* endpoints.refreshTokens settled: setAccessToken and the start of
\* setRefreshToken (71-72), or the catch block's clearAll (75-77, 154-156).
BootContinue ==
  /\ bootPc = "request"
  /\ pc[BootReq] = "done"
  /\ IF result[BootReq] = "ok"
       THEN /\ accessToken' = Acc(data[BootReq])
            /\ bootPc' = "storing"
       ELSE /\ accessToken' = NoToken
            /\ bootPc' = "clearing"
  /\ bootToken' = NoToken
  /\ pc' = Released(pc, BootReq, "idle")
  /\ result' = Released(result, BootReq, "none")
  /\ attempts' = Released(attempts, BootReq, 0)
  /\ status' = Released(status, BootReq, "none")
  /\ UNCHANGED <<formatVars, secureStore, coordVars, authVars, retry, hdr, data,
                 refreshError, userVars, issued, submitted, stale>>

\* await tokenStorage.setRefreshToken completes (72-73, 78-80) or throws (75-77).
BootStoreDone ==
  /\ Quiet
  /\ bootPc = "storing"
  /\ \/ /\ secureStore' = setRefreshToken(data[BootReq])
        /\ isAuthenticated' = TRUE
        /\ isLoading' = FALSE
        /\ bootPc' = "done"
        /\ UNCHANGED accessToken
     \/ /\ accessToken' = NoToken
        /\ bootPc' = "clearing"
        /\ UNCHANGED <<secureStore, authVars>>
  /\ data' = Released(data, BootReq, 0)
  /\ UNCHANGED <<formatVars, status, coordVars, pc, retry, hdr, attempts, result, refreshError,
                 bootToken, userVars, issued, submitted, stale>>

\* await tokenStorage.clearAll() of the catch block completes (77-80).
BootClearDone ==
  /\ Quiet
  /\ bootPc = "clearing"
  /\ secureStore' \in clearRefreshToken
  /\ isLoading' = FALSE
  /\ bootPc' = "done"
  /\ UNCHANGED <<formatVars, status, accessToken, coordVars, isAuthenticated, pc, retry, hdr,
                 attempts, result, data, refreshError, bootToken, userVars,
                 issued, submitted, stale>>

\* ------------------------------------ AuthProvider: login, register, logout
\* endpoints.login / endpoints.register: a fresh request through apiClient.  The
\* two differ in the URL they post to and in nothing else.
StartAuth ==
  /\ Quiet
  /\ userPc = "idle"
  /\ userOps < MaxUserOps
  /\ userPc' = "request"
  /\ userOps' = userOps + 1
  /\ userRes' = "none"
  /\ pc' = [pc EXCEPT ![AuthReq] = "sent"]
  /\ hdr' = [hdr EXCEPT ![AuthReq] = RequestInterceptor(NoToken)]
  /\ attempts' = [attempts EXCEPT ![AuthReq] = 1]
  /\ UNCHANGED <<formatVars, status, storeVars, coordVars, authVars, retry, result, data,
                 refreshError, bootVars, issued, submitted, stale>>

Login == StartAuth

Register == StartAuth

\* The endpoint call settled: setAccessToken and the start of setRefreshToken
\* (86-87, 93-94), or the rejection reaches the caller of login()/register().
AuthContinue ==
  /\ userPc = "request"
  /\ pc[AuthReq] = "done"
  /\ IF result[AuthReq] = "ok"
       THEN /\ accessToken' = Acc(data[AuthReq])
            /\ userPc' = "storing"
            /\ UNCHANGED userRes
       ELSE /\ userPc' = "idle"
            /\ userRes' = "rejected"
            /\ UNCHANGED accessToken
  /\ pc' = Released(pc, AuthReq, "idle")
  /\ result' = Released(result, AuthReq, "none")
  /\ attempts' = Released(attempts, AuthReq, 0)
  /\ status' = Released(status, AuthReq, "none")
  /\ UNCHANGED <<formatVars, secureStore, coordVars, authVars, retry, hdr, data,
                 refreshError, bootVars, userOps, issued, submitted, stale>>

\* await tokenStorage.setRefreshToken completes (87-88, 94-95) or throws.
AuthStoreDone ==
  /\ Quiet
  /\ userPc = "storing"
  /\ \/ /\ secureStore' = setRefreshToken(data[AuthReq])
        /\ isAuthenticated' = TRUE
        /\ userRes' = "loggedIn"
     \/ /\ userRes' = "rejected"
        /\ UNCHANGED <<secureStore, isAuthenticated>>
  /\ userPc' = "idle"
  /\ data' = Released(data, AuthReq, 0)
  /\ UNCHANGED <<formatVars, status, accessToken, coordVars, isLoading, pc, retry, hdr, attempts,
                 result, refreshError, bootVars, userOps, issued, submitted,
                 stale>>

\* logout(): clearAll() up to its await (98-99, 154-156).
Logout ==
  /\ Quiet
  /\ userPc = "idle"
  /\ userOps < MaxUserOps
  /\ accessToken' = NoToken
  /\ userPc' = "clearing"
  /\ userOps' = userOps + 1
  /\ userRes' = "none"
  /\ UNCHANGED <<formatVars, status, secureStore, coordVars, authVars, pc, retry, hdr, attempts,
                 result, data, refreshError, bootVars, issued, submitted,
                 stale>>

\* await tokenStorage.clearAll() of logout completes; setIsAuthenticated(false).
LogoutClearDone ==
  /\ Quiet
  /\ userPc = "clearing"
  /\ secureStore' \in clearRefreshToken
  /\ isAuthenticated' = FALSE
  /\ userPc' = "idle"
  /\ userRes' = "loggedOut"
  /\ UNCHANGED <<formatVars, status, accessToken, coordVars, isLoading, pc, retry, hdr, attempts,
                 result, data, refreshError, bootVars, userOps, issued,
                 submitted, stale>>

\* ------------------------------------------------------------ specification
Next ==
  \/ \E c \in Callers : Execute(c)
  \/ \E r \in Reqs : Respond(r)
  \/ \E r \in Reqs : ReadDone(r)
  \/ \E r \in Reqs : RenewResponse(r)
  \/ \E r \in Reqs : StoreDone(r)
  \/ \E r \in Reqs : ClearDone(r)
  \/ BootRead
  \/ BootContinue
  \/ BootStoreDone
  \/ BootClearDone
  \/ Login
  \/ Register
  \/ AuthContinue
  \/ AuthStoreDone
  \/ Logout
  \/ LogoutClearDone

Spec == Init /\ [][Next]_vars

\* Every network call and secure-store operation eventually completes.
FairSpec == Spec /\ WF_vars(Next)

\* ------------------------------------------------- utils/formatting.ts
\* Scores are held in tenths (5.5 is 55): the functions only compare a score
\* with thresholds that are multiples of 0.5, so the comparison of a score
\* given to one decimal is the comparison of the tenths.
Scores == (0 - NegScore) .. MaxScore
Degrees == (0 - MaxDegree) .. MaxDegree

\* constants.ts: RATING_THRESHOLDS, max in tenths.
RATING_THRESHOLDS ==
  << [max |-> 20, label |-> "flat"],
     [max |-> 40, label |-> "poor"],
     [max |-> 55, label |-> "fair"],
     [max |-> 70, label |-> "good"],
     [max |-> 85, label |-> "great"],
     [max |-> 100, label |-> "epic"] >>

\* constants.ts: COMPASS_POINTS.
COMPASS_POINTS ==
  << "N", "NNE", "NE", "ENE", "E", "ESE", "SE", "SSE",
     "S", "SSW", "SW", "WSW", "W", "WNW", "NW", "NNW" >>

\* theme: the score colours.
colors ==
  [scoreEpic |-> "#22C55E", scoreGreat |-> "#4ADE80", scoreGood |-> "#84CC16",
   scoreFair |-> "#EAB308", scorePoor |-> "#F97316", scoreFlat |-> "#6B7280"]

\* The loop of scoreToRating from entry i on, with `<=` in place of `<`.
RECURSIVE RatingFrom_Inclusive(_, _)
RatingFrom_Inclusive(s, i) ==
  IF i > Len(RATING_THRESHOLDS) THEN "epic"
  ELSE IF s <= RATING_THRESHOLDS[i].max THEN RATING_THRESHOLDS[i].label
  ELSE RatingFrom_Inclusive(s, i + 1)

scoreToRating_Inclusive(s) == RatingFrom_Inclusive(s, 1)

\* for (const t of RATING_THRESHOLDS) { if (score < t.max) return t.label; }
\* return 'epic';  -- the loop from entry i on.
RECURSIVE RatingFrom(_, _)
RatingFrom(s, i) ==
  IF i > Len(RATING_THRESHOLDS) THEN "epic"
  ELSE IF s < RATING_THRESHOLDS[i].max THEN RATING_THRESHOLDS[i].label
  ELSE RatingFrom(s, i + 1)

scoreToRating(s) == RatingFrom(s, 1)

\* scoreToColor with the 'good' boundary tested with `>`.
scoreToColor_Exclusive(s) ==
  IF s >= 85 THEN colors.scoreEpic
  ELSE IF s >= 70 THEN colors.scoreGreat
  ELSE IF s > 55 THEN colors.scoreGood
  ELSE IF s >= 40 THEN colors.scoreFair
  ELSE IF s >= 20 THEN colors.scorePoor
  ELSE colors.scoreFlat

scoreToColor(s) ==
  IF s >= 85 THEN colors.scoreEpic
  ELSE IF s >= 70 THEN colors.scoreGreat
  ELSE IF s >= 55 THEN colors.scoreGood
  ELSE IF s >= 40 THEN colors.scoreFair
  ELSE IF s >= 20 THEN colors.scorePoor
  ELSE colors.scoreFlat

\* JavaScript a % n for n > 0: the remainder has the sign of a.
JsRem(a, n) == IF a >= 0 THEN a % n ELSE 0 - ((0 - a) % n)

\* Math.round(num / den) for den > 0: floor(num / den + 1/2).
MathRound(num, den) == (2 * num + den) \div (2 * den)

\* arr[i] of a JavaScript array: undefined outside 0 .. length - 1.
ArrayAt(arr, i) == IF i \in 0 .. (Len(arr) - 1) THEN arr[i + 1] ELSE "undefined"

\* degreeToCompass that normalises with a single `deg % 360`.
degreeToCompass_SingleRem(d) ==
  IF d = Null THEN "--"
  ELSE LET normalized == JsRem(d[2], 360)
           index == JsRem(MathRound(2 * normalized, 45), 16)
       IN ArrayAt(COMPASS_POINTS, index)

\* normalized / 22.5 is (2 * normalized) / 45.
degreeToCompass(d) ==
  IF d = Null THEN "--"
  ELSE LET normalized == JsRem(JsRem(d[2], 360) + 360, 360)
           index == JsRem(MathRound(2 * normalized, 45), 16)
       IN ArrayAt(COMPASS_POINTS, index)

CallScoreToRating ==
  /\ rating = Pending
  /\ rating' = scoreToRating(score)
  /\ UNCHANGED <<clientVars, score, deg, color, compass>>

CallScoreToColor ==
  /\ color = Pending
  /\ color' = scoreToColor(score)
  /\ UNCHANGED <<clientVars, score, deg, rating, compass>>

CallDegreeToCompass ==
  /\ compass = Pending
  /\ compass' = degreeToCompass(deg)
  /\ UNCHANGED <<clientVars, score, deg, rating, color>>

\* The formatting functions applied to any score and any degree (or null); the
\* client is left in its initial state.
FormatInit ==
  /\ score \in Scores
  /\ deg \in {Null} \cup {Num(d) : d \in Degrees}
  /\ rating = Pending
  /\ color = Pending
  /\ compass = Pending
  /\ accessToken = NoToken
  /\ secureStore = NoToken
  /\ isRefreshing = FALSE
  /\ failedQueue = <<>>
  /\ isAuthenticated = FALSE
  /\ isLoading = TRUE
  /\ pc = [r \in Reqs |-> "idle"]
  /\ retry = [r \in Reqs |-> FALSE]
  /\ hdr = [r \in Reqs |-> NoToken]
  /\ attempts = [r \in Reqs |-> 0]
  /\ result = [r \in Reqs |-> "none"]
  /\ status = [r \in Reqs |-> "none"]
  /\ data = [r \in Reqs |-> 0]
  /\ refreshError = [r \in Reqs |-> NoError]
  /\ bootPc = "reading"
  /\ bootToken = NoToken
  /\ userPc = "idle"
  /\ userOps = 0
  /\ userRes = "none"
  /\ issued = 0
  /\ submitted = [k \in TokenIds |-> 0]
  /\ stale = [r \in Reqs |-> FALSE]

FormatNext ==
  \/ CallScoreToRating
  \/ CallScoreToColor
  \/ CallDegreeToCompass

FormatSpec == FormatInit /\ [][FormatNext]_vars

\* ============================================================= properties

\* The posts to /auth/refresh that are in flight: the 401 handler's axios.post
\* of each request, and the request of endpoints.refreshTokens.
RenewalsInFlight ==
  Cardinality({r \in Reqs : pc[r] = "renewing"})
    + (IF pc[BootReq] = "sent" THEN 1 ELSE 0)

\* C1: at most one renewal request (POST to the refresh endpoint) is in flight
\* at any time, counting the renewals of the 401 handler and the renewal made
\* at process start.
C1_AtMostOneRenewalInFlight == RenewalsInFlight <= 1

\* C2: of the execute() calls that all receive a 401 before the renewal started
\* by the first of them has settled, only the first posts to the renewal
\* endpoint: no caller that was handling its 401 when a caller's renewal cycle
\* ended starts a renewal of its own.
C2_OneRenewalPerBurst ==
  \A c \in Callers : pc[c] = "renewing" => ~stale[c]

\* C3: an execute() is handed to the network at most twice, and a request that
\* was re-issued after a renewal neither starts nor joins another renewal.
C3_RetriedAtMostOnce ==
  \A c \in Callers :
    /\ attempts[c] <= 2
    /\ attempts[c] = 2 =>
         pc[c] \notin {"reading", "queued", "renewing", "storing", "clearing"}

\* C4: no renewal credential is posted to the renewal endpoint more than once.
C4_RenewalCredentialsSingleUse ==
  \A k \in TokenIds : submitted[k] <= 1

C6_SameRenewalError ==
  [][\A r \in Reqs :
       /\ (pc[r] \in {"renewing", "storing"} /\ pc'[r] = "clearing") =>
            \A w \in Waiters : pc'[w] = "done" /\ result'[w] = refreshError'[r]
       /\ (pc[r] = "clearing" /\ pc'[r] = "done") =>
            result'[r] = refreshError[r] /\ Waiters = {}]_vars

\* C7: every execute() call returns: when every network call and secure-store
\* operation has completed (no step is left to take), no caller is suspended.
C7_EveryExecuteReturns ==
  (ENABLED Next) \/ (\A c \in Callers : pc[c] = "done")

\* C8: whenever the coordinator is Idle the waiter queue is empty.
C8_IdleQueueEmpty ==
  ~isRefreshing => failedQueue = <<>>

\* No login() or register() is in progress or was the last call to complete.
NoLogin == userPc \notin {"request", "storing"} /\ userRes # "loggedIn"

\* C9: when the coordinator returns to Idle after a failed renewal whose
\* deletion of the persisted credential went through, and no login() or
\* register() completed or is under way, the access credential is absent.
C9_ClearedAfterFailure ==
  [][\A r \in Reqs :
       (pc[r] = "clearing" /\ pc'[r] = "done" /\ NoLogin /\ secureStore' = NoToken)
         => accessToken' = NoToken]_vars

\* C10: once the renewal cycle of an execute() whose renewal the server rejected
\* has settled, isAuthenticated is false.
C10_UnauthenticatedAfterRejection ==
  [][\A c \in Callers :
       (pc[c] = "clearing" /\ refreshError[c] = "rejected" /\ pc'[c] = "done")
         => ~isAuthenticated']_vars

\* C11: when the renewal started by an execute() that received a 401 returns
\* the pair {access: A2, renewal: R2}, then at the end of the renewal cycle the
\* store holds A2 as access credential and R2 as renewal credential, and the
\* request is re-issued carrying A2 (stated for the sessions in which
\* login(), register() and logout() are never called).
C11_CredentialRotation ==
  [][\A c \in Callers :
       (pc[c] = "storing" /\ pc'[c] = "sent" /\ userOps = 0) =>
         /\ accessToken' = Acc(data[c])
         /\ secureStore' = Ref(data[c])
         /\ hdr'[c] = Acc(data[c])]_vars

\* C12: once logout() has completed the access credential is absent, and every
\* request attempt issued through execute() from then on carries no
\* Authorization header (no login() or register() follows a logout() here).
C12_NoCredentialAfterLogout ==
  [][userRes' = "loggedOut" =>
       /\ accessToken' = NoToken
       /\ \A c \in Callers :
            (pc[c] # "sent" /\ pc'[c] = "sent") => hdr'[c] = NoToken]_vars

\* C13: every request attempt handed to the network through apiClient, first
\* attempt or retry, carries exactly the access credential the store holds at
\* that moment, and no Authorization header when the store holds none.
C13_AttemptCarriesStoredCredential ==
  [][\A r \in Reqs :
       (pc[r] # "sent" /\ pc'[r] = "sent") => hdr'[r] = accessToken']_vars

\* C14: a response that is not an authorization failure (a success, or a failure
\* other than a 401) settles the request with that response, and handling it
\* posts no renewal, issues or re-issues no request, and leaves the access
\* credential, the persisted renewal credential, the coordinator flag and the
\* waiter queue unchanged.
C14_NonAuthPassesThrough ==
  [][\A r \in Reqs :
       (pc[r] = "sent" /\ pc'[r] # "sent" /\ status'[r] \in {"200", "error"}) =>
         /\ pc'[r] = "done"
         /\ result'[r] = (IF status'[r] = "200" THEN "ok" ELSE "eNet")
         /\ UNCHANGED <<accessToken, secureStore, isRefreshing, failedQueue>>
         /\ UNCHANGED <<submitted, attempts>>
         /\ \A x \in Reqs :
              /\ pc'[x] = "sent" => pc[x] = "sent"
              /\ pc'[x] = "renewing" => pc[x] = "renewing"]_vars

\* A request was settled by a failure that is not a 401 while a renewal cycle
\* with a waiter in its queue is under way.
C14_Witness ==
  \E r \in Reqs :
    /\ pc[r] = "done" /\ status[r] = "error" /\ result[r] = "eNet"
    /\ isRefreshing /\ failedQueue # <<>>

\* C15: when the handler of a 401 finds no renewal credential (none persisted,
\* or the secure store cannot be read), the request settles with that 401: no
\* renewal is posted, no request is issued or re-issued, the caller is not
\* enqueued, and the credential store and the coordinator are left unchanged.
C15_NoCredentialReturns401 ==
  [][\A r \in Reqs :
       /\ (pc[r] = "reading" /\ pc'[r] # "reading" /\ secureStore = NoToken) =>
            pc'[r] = "done"
       /\ (pc[r] = "reading" /\ pc'[r] = "done") =>
            /\ result'[r] = "e401"
            /\ UNCHANGED <<accessToken, secureStore, isRefreshing, failedQueue>>
            /\ UNCHANGED <<submitted, attempts>>
            /\ \A x \in Reqs :
                 /\ pc'[x] = "sent" => pc[x] = "sent"
                 /\ pc'[x] = "renewing" => pc[x] = "renewing"
                 /\ pc'[x] = "queued" => pc[x] = "queued"]_vars

\* An execute() call was settled with its first 401 while nothing is persisted.
C15_Witness ==
  \E c \in Callers :
    /\ pc[c] = "done" /\ result[c] = "e401" /\ attempts[c] = 1
    /\ status[c] = "401" /\ secureStore = NoToken

\* C16: the access credential is never written to the persistent secure store:
\* the persisted item is absent or a renewal credential (the one persisted
\* before start, or one issued by login, register or refresh), and the access
\* credentials issued live only in the in-memory variable.
C16_AccessNeverPersisted ==
  /\ \/ secureStore = NoToken
     \/ secureStore[1] = "refresh" /\ secureStore[2] \in 0 .. issued
  /\ \/ accessToken = NoToken
     \/ accessToken[1] = "access" /\ accessToken[2] \in 1 .. issued

\* Both credentials of a pair the server issued are held: the access credential
\* in memory, the renewal credential persisted by the code.
C16_Witness ==
  /\ accessToken # NoToken
  /\ secureStore # NoToken
  /\ secureStore[2] >= 1
  /\ secureStore[2] = accessToken[2]

\* C17: the startup task causes at most one call to the renewal endpoint: the
\* request of endpoints.refreshTokens is handed to the network once, and no
\* renewal of the 401 handler is made on its behalf.
C17_OneStartupRenewal ==
  /\ attempts[BootReq] <= 1
  /\ pc[BootReq] # "renewing"

\* C18: the startup silent renewal always resolves: when every network call and
\* secure-store operation has completed (no step is left to take), isLoading
\* is false.
C18_StartupResolves ==
  (ENABLED Next) \/ ~isLoading

\* C19: when the startup silent renewal resolves after a success, isAuthenticated
\* is true and the store holds the access and renewal credentials it returned;
\* when it resolves after its request or its write of the credentials failed,
\* isAuthenticated is false and the access credential is absent (stated for
\* the sessions in which login(), register() and logout() are never called,
\* and leaving aside whether the persisted item could be deleted).
C19_StartupOutcome ==
  [][(bootPc' = "done" /\ userOps = 0) =>
       /\ bootPc = "storing" =>
            /\ isAuthenticated'
            /\ accessToken' = Acc(data[BootReq])
            /\ secureStore' = Ref(data[BootReq])
       /\ bootPc = "clearing" =>
            /\ ~isAuthenticated'
            /\ accessToken' = NoToken]_vars

\* C20: when a login() or register() completes successfully the store holds both
\* credentials the endpoint returned and isAuthenticated is true, and an
\* execute() issued from then on attaches the access credential the store holds
\* and posts no renewal.
C20_LoginRoundTrip ==
  [][/\ (userPc = "storing" /\ userRes' = "loggedIn") =>
          /\ isAuthenticated'
          /\ secureStore' = Ref(data[AuthReq])
          /\ accessToken' = Acc(data[AuthReq])
     /\ \A c \in Callers :
          (pc[c] = "idle" /\ pc'[c] = "sent") =>
            /\ hdr'[c] = accessToken
            /\ UNCHANGED <<submitted, accessToken, secureStore>>
            /\ \A x \in Reqs : pc'[x] = "renewing" => pc[x] = "renewing"]_vars

\* No login, register, logout, startup renewal or 401 handler is in progress.
Quiescent ==
  /\ userPc = "idle"
  /\ bootPc = "done"
  /\ \A r \in Reqs : pc[r] \in {"idle", "done"}

\* C21: in every quiescent state in which isAuthenticated is true, an access
\* credential or a renewal credential is present in the store (the direction
\* of the equivalence that does not depend on the secure store being readable).
C21_FlagIsViewOfStore ==
  (Quiescent /\ isAuthenticated) =>
    (accessToken # NoToken \/ secureStore # NoToken)

\* C22: logout() always completes without raising, also when the secure-store
\* deletion fails, and when it has completed the in-memory access credential
\* is absent and isAuthenticated is false.
C22_LogoutCannotFail ==
  [][(userPc = "clearing" /\ userPc' # "clearing") =>
       /\ userRes' = "loggedOut"
       /\ ~isAuthenticated'
       /\ accessToken' = NoToken]_vars

\* C23: scoreToRating returns the label of the score's bucket: flat below 2,
\* poor from 2 to below 4, fair from 4 to below 5.5, good from 5.5 to below 7,
\* great from 7 to below 8.5, epic from 8.5 on, 10 and above included (scores
\* in tenths).
C23_RatingBuckets ==
  rating # Pending =>
    rating = (CASE score < 20 -> "flat"
                [] score >= 20 /\ score < 40 -> "poor"
                [] score >= 40 /\ score < 55 -> "fair"
                [] score >= 55 /\ score < 70 -> "good"
                [] score >= 70 /\ score < 85 -> "great"
                [] score >= 85 -> "epic")

\* scoreToRating returned for a score on a boundary, and for a score above 10.
C23_Witness ==
  /\ score \in {55, 105}
  /\ rating = (IF score = 55 THEN "good" ELSE "epic")

\* Distance on the circle, in quarter degrees, between d degrees and the centre
\* of sector k (k * 22.5 degrees).
SectorDistance(d, k) ==
  LET a == (4 * d - 90 * k) % 1440
  IN IF a <= 720 THEN a ELSE 1440 - a

\* C24: degreeToCompass returns '--' for null or undefined and, for every
\* integer degree d (negative values and values of 360 and more included), the
\* name of the one 22.5-degree sector nearest to d modulo 360, never an
\* undefined entry; in particular 0 -> N, 90 -> E, 180 -> S, 270 -> W,
\* 315 -> NW, 360 -> N and -90 -> W.
C24_NearestCompassPoint ==
  compass # Pending =>
    IF deg = Null
      THEN compass = "--"
      ELSE /\ \E k \in 0 .. 15 :
                /\ compass = COMPASS_POINTS[k + 1]
                /\ \A j \in (0 .. 15) \ {k} :
                     SectorDistance(deg[2], k) < SectorDistance(deg[2], j)
           /\ deg[2] \in {0, 360} => compass = "N"
           /\ deg[2] = 90 => compass = "E"
           /\ deg[2] = 180 => compass = "S"
           /\ deg[2] \in {270, -90} => compass = "W"
           /\ deg[2] = 315 => compass = "NW"

\* degreeToCompass returned for a negative degree.
C24_Witness ==
  /\ deg = Num(-90)
  /\ compass = "W"

\* The colour of the bucket with the given label.
BucketColor(label) ==
  CASE label = "flat" -> colors.scoreFlat
    [] label = "poor" -> colors.scorePoor
    [] label = "fair" -> colors.scoreFair
    [] label = "good" -> colors.scoreGood
    [] label = "great" -> colors.scoreGreat
    [] label = "epic" -> colors.scoreEpic

\* C30: for every score from 0 to 10 (in tenths), scoreToColor returns the
\* colour of the bucket whose label scoreToRating returns.
C30_ColorMatchesRating ==
  (score \in 0 .. 100 /\ rating # Pending /\ color # Pending) =>
    color = BucketColor(rating)

\* Both functions returned for a score on a bucket boundary.
C30_Witness ==
  /\ score \in {20, 40, 55, 70, 85}
  /\ rating = scoreToRating(score)
  /\ color = BucketColor(rating)

\* C25: a waiter leaves the queue only in the step of a handler r whose renewal
\* call has completed: either r's write of the new renewal credential has just
\* completed (the access credential was set when the renewal answered) and the
\* waiter is re-issued, or r's renewal or write has failed and the waiter is
\* rejected; no other handler's renewal call is outstanding at that moment.
C25_ReleasedAfterRenewal ==
  [][\A w \in Reqs :
       (pc[w] = "queued" /\ pc'[w] # "queued") =>
         \E r \in Reqs \ {w} :
           /\ pc[r] \in {"renewing", "storing"}
           /\ pc'[r] \in {"sent", "clearing"}
           /\ pc'[r] = "sent" =>
                /\ pc[r] = "storing"
                /\ secureStore' = Ref(data[r])
                /\ pc'[w] = "sent"
           /\ pc'[r] = "clearing" => pc'[w] = "done"
           /\ \A x \in Reqs \ {r} : pc[x] # "renewing"]_vars

\* A waiter was rejected because the write of the new renewal credential failed.
C25_Witness ==
  \E a, b \in Callers :
    /\ pc[a] = "clearing" /\ refreshError[a] = "storage"
    /\ pc[b] = "done" /\ result[b] = "storage"

\* The handlers inside a renewal cycle: their renewal call, their write of the
\* new renewal credential or their deletion of the old one is outstanding.
InCycle == {r \in Reqs : pc[r] \in {"renewing", "storing", "clearing"}}

\* C26: the coordinator is in Renewing (isRefreshing) only while a handler's
\* renewal call or credential write is outstanding, and when every network
\* call and secure-store operation has completed (no step is left to take) it
\* is back in Idle.
C26_RenewingReturnsToIdle ==
  /\ isRefreshing => InCycle # {}
  /\ (ENABLED Next) \/ ~isRefreshing

\* The coordinator is back in Idle after a cycle whose renewal failed.
C26_Witness ==
  /\ ~isRefreshing
  /\ InCycle = {}
  /\ \E c \in Callers : pc[c] = "done" /\ result[c] \in {"rejected", "storage"}

\* C27: when login() or register() rejects because the secure-store write of
\* the renewal credential failed, the in-memory access credential is not the
\* one this call received from the endpoint (which no state before the call
\* could hold), and isAuthenticated is unchanged.
C27_LoginAllOrNothing ==
  [][(userPc = "storing" /\ userRes' = "rejected") =>
       /\ accessToken' # Acc(data[AuthReq])
       /\ UNCHANGED isAuthenticated]_vars

\* C28: the request of login()/register() never causes a call to the renewal
\* endpoint, never waits for a renewal and is never re-issued, whatever the
\* endpoint answers.
C28_LoginFailurePropagates ==
  /\ pc[AuthReq] \notin {"queued", "renewing", "storing", "clearing"}
  /\ attempts[AuthReq] <= 1

\* C29: once a login() or register() has completed and the store holds a pair
\* of credentials whose renewal credential has not been posted to the renewal
\* endpoint (so every renewal still in progress started before the pair was
\* written), no step clears or replaces either credential or resets
\* isAuthenticated.
C29_LoginSurvivesOlderRenewal ==
  [][\A d \in 1 .. MaxIssued :
       ( /\ userRes = "loggedIn"
         /\ isAuthenticated
         /\ accessToken = Acc(d)
         /\ secureStore = Ref(d)
         /\ submitted'[d] = 0 ) =>
       /\ accessToken' = Acc(d)
       /\ secureStore' = Ref(d)
       /\ isAuthenticated']_vars

====
